---------------------------- MODULE Spec2Model ----------------------------
(***************************************************************************)
(* A model of job_board_finder (src/main.py): the per-row pipeline of      *)
(* main(), analyze_url() with its main-page and iframe fetches, the text   *)
(* scanner, the candidate selector and the email+PDF detector.             *)
(*                                                                         *)
(* Strings are sequences of tokens.  A token stands for a run of           *)
(* characters that the code's character tests treat alike: a scheme        *)
(* ("https://"), a run of host characters ("acme.com", "bamboohr.com"), a  *)
(* path piece ("/jobs"), a closing punctuation character (")"), white      *)
(* space (" "), a quote or a piece of markup.  Upper-case variants of some *)
(* tokens exist so that str.lower() and re.IGNORECASE are not the          *)
(* identity.                                                               *)
(***************************************************************************)
EXTENDS Integers, Sequences, FiniteSets, TLC

(***************************************************************************)
(* Bounds of the model.                                                    *)
(***************************************************************************)
MaxRows == 2
MaxCands == 3

(***************************************************************************)
(* Values without a Python spelling in the token alphabet.                 *)
(***************************************************************************)
\* Optional[T]: None is the empty tuple, a value v is Some(v)
None == <<>>
Some(v) == <<v>>
Get(o) == o[1]
NOTE == "email to apply with pdfs"

(***************************************************************************)
(* Character classes.                                                      *)
(***************************************************************************)
\* str.lower(), token by token
Lower(t) ==
    CASE t = "HTTP://" -> "http://"
      [] t = "HTTPS://" -> "https://"
      [] t = "/JOBS" -> "/jobs"
      [] t = "/Careers" -> "/careers"
      [] t = "BambooHR.com" -> "bamboohr.com"
      [] t = ".PDF" -> ".pdf"
      [] t = "MAILTO:" -> "mailto:"
      [] t = "Apply" -> "apply"
      [] t = "CV" -> "cv"
      [] OTHER -> t

\* \s of the patterns, and what str.strip() removes
Whitespace == {" ", "\n"}

\* the characters the patterns' tail [^\s"'<>]* excludes; markup tokens hold
\* an angle bracket or a quote
Markup == {"<iframe src='", "<iframe>", "<a href='", "<a>", "'>", "</a>", "<p>", "</p>"}
Terminators == Whitespace \cup {"'", "\"", "<", ">"} \cup Markup

\* tokens made of [a-zA-Z0-9.-] only
HostChars == {"acme.com", "x.", "bamboohr.com", "BambooHR.com", "greenhouse.io",
              "workable.com", "applytojob.com", "paycor.com", "trinethire.com",
              "indeed.com"}

\* the characters rstrip(')"\'.,;>') removes
RstripChars == {")", "\"", "'", ".", ",", ";", ">"}

\* path pieces, each starting with "/"
PathTokens == {"/jobs", "/JOBS", "/careers", "/Careers", "/about", "/embed"}

\* tokens that end the netloc of a URL: the start of a path, query or fragment
NetlocEnders == PathTokens \cup {"#", "?next="}

\* "//[" : a network location with an unbalanced bracket
BadNetloc == "//["

(***************************************************************************)
(* Sequence helpers.                                                       *)
(***************************************************************************)
RECURSIVE LStripWs(_)
LStripWs(s) ==
    IF s # <<>> /\ Head(s) \in Whitespace THEN LStripWs(Tail(s)) ELSE s

RECURSIVE RStripIn(_, _)
RStripIn(s, chars) ==
    IF s # <<>> /\ s[Len(s)] \in chars
    THEN RStripIn(SubSeq(s, 1, Len(s) - 1), chars)
    ELSE s

\* str.strip()
Strip(s) == RStripIn(LStripWs(s), Whitespace)

RECURSIVE Flatten(_)
Flatten(ss) == IF ss = <<>> THEN <<>> ELSE Head(ss) \o Flatten(Tail(ss))

(***************************************************************************)
(* JOB_BOARD_PATTERNS, in dict (insertion) order.  Every pattern has the   *)
(* shape https?://[a-zA-Z0-9.-]*<domain>[^\s"'<>]* with re.IGNORECASE.     *)
(***************************************************************************)
JOB_BOARD_PATTERNS ==
    << [vendor |-> "bamboohr",   domain |-> "bamboohr.com"],
       [vendor |-> "greenhouse", domain |-> "greenhouse.io"],
       [vendor |-> "workable",   domain |-> "workable.com"],
       [vendor |-> "jazzhr",     domain |-> "applytojob.com"],
       [vendor |-> "paycor",     domain |-> "paycor.com"],
       [vendor |-> "trinethire", domain |-> "trinethire.com"],
       [vendor |-> "indeed",     domain |-> "indeed.com"] >>

Vendors == {JOB_BOARD_PATTERNS[i].vendor : i \in 1..Len(JOB_BOARD_PATTERNS)}

(***************************************************************************)
(* normalize_url                                                           *)
(***************************************************************************)
HasScheme(url) == url # <<>> /\ Lower(Head(url)) \in {"http://", "https://"}

normalize_url(url) ==
    LET u == Strip(url)
    IN  IF u = <<>> THEN <<>>
        ELSE IF ~HasScheme(u) THEN <<"https://">> \o u
        ELSE u

(***************************************************************************)
(* The text scanner: pattern.findall(text) for one pattern, then           *)
(* find_job_boards_in_text over the registry.                              *)
(***************************************************************************)
\* the last index of the maximal run of tokens outside `excluded` that starts
\* right after index i
RECURSIVE RunEnd(_, _, _)
RunEnd(text, i, excluded) ==
    IF i + 1 <= Len(text) /\ text[i + 1] \notin excluded
    THEN RunEnd(text, i + 1, excluded)
    ELSE i

RECURSIVE HostRunEnd(_, _)
HostRunEnd(text, i) ==
    IF i + 1 <= Len(text) /\ text[i + 1] \in HostChars
    THEN HostRunEnd(text, i + 1)
    ELSE i

\* whether the pattern of `domain` matches at index i: a scheme, then host
\* characters among which the domain occurs
MatchesAt(domain, text, i) ==
    /\ Lower(text[i]) \in {"http://", "https://"}
    /\ \E k \in (i + 1)..HostRunEnd(text, i) : Lower(text[k]) = domain

\* re.findall: the non-overlapping matches, leftmost first, each greedy to
\* the first excluded character
RECURSIVE FindAllFrom(_, _, _)
FindAllFrom(domain, text, i) ==
    IF i > Len(text) THEN <<>>
    ELSE IF MatchesAt(domain, text, i)
    THEN LET e == RunEnd(text, i, Terminators)
         IN  <<SubSeq(text, i, e)>> \o FindAllFrom(domain, text, e + 1)
    ELSE FindAllFrom(domain, text, i + 1)

\* match.strip().rstrip(')"\'.,;>')
Cleaned(match) == RStripIn(Strip(match), RstripChars)

RECURSIVE ScanPatterns(_, _)
ScanPatterns(text, p) ==
    IF p > Len(JOB_BOARD_PATTERNS) THEN <<>>
    ELSE LET ms == FindAllFrom(JOB_BOARD_PATTERNS[p].domain, text, 1)
         IN  [j \in 1..Len(ms) |-> <<JOB_BOARD_PATTERNS[p].vendor, Cleaned(ms[j])>>]
             \o ScanPatterns(text, p + 1)

find_job_boards_in_text(text) ==
    IF text = <<>> THEN <<>> ELSE ScanPatterns(text, 1)

\* html or "": the text is scanned as it is
find_job_boards_in_html(html) == find_job_boards_in_text(html)


(***************************************************************************)
(* HTML.  A document is a sequence of elements                             *)
(*   [tag, has, url, text, parent]                                         *)
(* tag "text":   `text` is the character data;                             *)
(* tag "iframe": `has` says whether a src attribute is present, `url` is   *)
(*               its value;                                                *)
(* tag "a":      `has` says whether an href attribute is present, `url` is *)
(*               its value, `text` the anchor's own text and `parent` the  *)
(*               other text of its parent element.                         *)
(* resp.text is the document's markup (HtmlText); BeautifulSoup's tree is  *)
(* the element sequence.                                                   *)
(***************************************************************************)
Elem(tag, has, url, text, parent) ==
    [tag |-> tag, has |-> has, url |-> url, text |-> text, parent |-> parent]

Text(body) == Elem("text", FALSE, <<>>, body, <<>>)
Iframe(src) == Elem("iframe", TRUE, src, <<>>, <<>>)
IframeNoSrc == Elem("iframe", FALSE, <<>>, <<>>, <<>>)
Anchor(href, text, parent) == Elem("a", TRUE, href, text, parent)

RenderElem(e) ==
    CASE e.tag = "text" -> e.text
      [] e.tag = "iframe" ->
            IF e.has THEN <<"<iframe src='">> \o e.url \o <<"'>">> ELSE <<"<iframe>">>
      [] OTHER ->
            <<"<p>">> \o e.parent
            \o (IF e.has THEN <<"<a href='">> \o e.url \o <<"'>">> ELSE <<"<a>">>)
            \o e.text \o <<"</a>", "</p>">>

\* resp.text of a response that serves document `doc`
HtmlText(doc) == Flatten([i \in 1..Len(doc) |-> RenderElem(doc[i])])

\* soup.find_all("iframe", src=True)
FindIframes(soup) == SelectSeq(soup, LAMBDA e : e.tag = "iframe" /\ e.has)

\* soup.find_all("a", href=True)
FindAnchors(soup) == SelectSeq(soup, LAMBDA e : e.tag = "a" /\ e.has)

(***************************************************************************)
(* urllib.parse.urljoin(base, url), for a well-formed base and a reference *)
(* that is absolute, a fragment, an absolute path, or has a malformed      *)
(* network location (urlsplit raises ValueError("Invalid IPv6 URL")).      *)
(***************************************************************************)
UrljoinRaises(base, url) == url # <<>> /\ Head(url) = BadNetloc

\* scheme and netloc of the base; urlsplit lower-cases the scheme
Origin(base) ==
    <<Lower(Head(base))>> \o SubSeq(base, 2, RunEnd(base, 1, NetlocEnders))

urljoin(base, url) ==
    IF url = <<>> THEN base
    ELSE IF HasScheme(url) THEN <<Lower(Head(url))>> \o Tail(url)
    ELSE IF Head(url) = "#"
    THEN <<Lower(Head(base))>> \o Tail(base) \o (IF Tail(url) = <<>> THEN <<>> ELSE url)
    ELSE Origin(base) \o url

(***************************************************************************)
(* pick_best_job_board                                                     *)
(***************************************************************************)
\* sub in u.lower()
Contains(u, sub) == \E i \in 1..Len(u) : Lower(u[i]) = sub

\* a selector that forgets the preference for "/jobs" and "/careers"
pick_first_job_board(cands) == IF cands = <<>> THEN None ELSE Some(cands[1])

pick_best_job_board(cands) ==
    IF cands = <<>> THEN None
    ELSE LET with_jobs_or_careers ==
                 SelectSeq(cands, LAMBDA c : Contains(c[2], "/jobs") \/ Contains(c[2], "/careers"))
         IN  IF with_jobs_or_careers # <<>> THEN Some(with_jobs_or_careers[1])
             ELSE Some(cands[1])

(***************************************************************************)
(* The deduplication loops of analyze_url: `seen` is the set of pairs      *)
(* already kept, `uniq` the list built so far.                             *)
(***************************************************************************)
RECURSIVE DedupeLoop(_, _, _, _)
DedupeLoop(cands, i, seen, uniq) ==
    IF i > Len(cands) THEN uniq
    ELSE IF cands[i] \notin seen
    THEN DedupeLoop(cands, i + 1, seen \cup {cands[i]}, Append(uniq, cands[i]))
    ELSE DedupeLoop(cands, i + 1, seen, uniq)

\* a loop whose `seen` holds vendors instead of (vendor, url) pairs
RECURSIVE DedupeByVendorLoop(_, _, _, _)
DedupeByVendorLoop(cands, i, seen, uniq) ==
    IF i > Len(cands) THEN uniq
    ELSE IF cands[i][1] \notin seen
    THEN DedupeByVendorLoop(cands, i + 1, seen \cup {cands[i][1]}, Append(uniq, cands[i]))
    ELSE DedupeByVendorLoop(cands, i + 1, seen, uniq)

DedupeByVendor(cands) == DedupeByVendorLoop(cands, 1, {}, <<>>)

\* lines 292-299: unique_candidates
Dedupe(cands) == DedupeLoop(cands, 1, {}, <<>>)

\* lines 258-264: uniq of the fetch-failed branch
DedupeFallback(cands) == DedupeLoop(cands, 1, {}, <<>>)

(***************************************************************************)
(* detect_email_with_pdfs                                                  *)
(***************************************************************************)
KEYWORDS == {"apply", "resume", "cv"}

\* any(k in text for k in KEYWORDS), text lower-cased
HasKeyword(words) == \E i \in 1..Len(words) : Lower(words[i]) \in KEYWORDS

has_apply_context(anchor) ==
    \/ HasKeyword(Strip(anchor.text))
    \/ HasKeyword(anchor.parent \o anchor.text)

detect_email_with_pdfs(soup) ==
    LET job_pdf_links == SelectSeq(FindAnchors(soup), LAMBDA a : Contains(a.url, ".pdf"))
        mailto_links ==
            SelectSeq(FindAnchors(soup), LAMBDA a : a.url # <<>> /\ Lower(Head(a.url)) = "mailto:")
    IN  IF job_pdf_links = <<>> THEN FALSE
        ELSE IF mailto_links = <<>> THEN FALSE
        ELSE \E i \in 1..Len(mailto_links) : has_apply_context(mailto_links[i])

(***************************************************************************)
(* The inputs: rows of input.csv and the documents the network may serve.  *)
(***************************************************************************)
Row(c, u) == [companyName |-> c, applyUrl |-> u]

\* rows of input.csv; an empty cell is also the cell a short row does not
\* have (row.get(...) or "")
InputRows ==
    { Row(<<"Acme">>, <<>>),
      Row(<<" ", "Beta">>, <<" ">>),
      Row(<<"Acme", " ">>, <<" ", "acme.com", "/careers", " ">>),
      Row(<<"Beta">>, <<"HTTP://", "x.", "BambooHR.com", "/about", ")">>),
      Row(<<>>, <<"x.", "greenhouse.io", "/JOBS">>),
      Row(<<"Acme">>,
          <<"https://", "bamboohr.com", "/about", " ", "https://", "greenhouse.io", "/jobs",
            " ", "https://", "bamboohr.com", "/about">>) }

DocEmpty == <<>>

DocPdf ==
    << Text(<<"see", " ", "https://", "acme.com", "/jobs", ".", " ">>),
       Anchor(<<"/about", ".PDF">>, <<"Job">>, <<>>),
       Anchor(<<"MAILTO:", "hr">>, <<"Apply">>, <<>>) >>

DocFrames ==
    << Iframe(<<" ">>),
       IframeNoSrc,
       Iframe(<<"https://", "x.", "greenhouse.io", "/about">>),
       Iframe(<<" ", "/embed">>),
       Anchor(<<".pdf">>, <<"Job">>, <<>>),
       Anchor(<<"mailto:", "hr">>, <<"email">>, <<"contact">>) >>

DocSelf == << Iframe(<<"#">>), Iframe(<<"#">>) >>

DocBadSrc ==
    << Iframe(<<"/embed">>),
       Iframe(<<BadNetloc>>),
       Iframe(<<"https://", "workable.com", "/careers">>) >>

MainDocs == {DocEmpty, DocPdf, DocFrames, DocSelf, DocBadSrc}

FrameEmpty == <<>>

FrameBoard == << Text(<<"https://", "x.", "workable.com", "/Careers", ")">>) >>

FramePdf ==
    << Text(<<"https://", "x.", "greenhouse.io", "/about">>),
       Anchor(<<".pdf">>, <<"Job">>, <<>>),
       Anchor(<<"mailto:", "hr">>, <<"here">>, <<"apply", "by", "email">>) >>

FrameDocs == {FrameEmpty, FrameBoard, FramePdf}

\* the candidates the pure-function specifications draw from
CandPool ==
    { <<"bamboohr", <<"https://", "bamboohr.com", "/about">>>>,
      <<"bamboohr", <<"https://", "bamboohr.com", "/JOBS">>>>,
      <<"greenhouse", <<"https://", "bamboohr.com", "/about">>>>,
      <<"greenhouse", <<"https://", "greenhouse.io", "/Careers">>>> }

(***************************************************************************)
(* State.                                                                  *)
(***************************************************************************)
VARIABLES
    pc,           \* where main() is: "read", "fetch_main", "fetch_frame", "done", "crashed"
    inRows,       \* the rows the csv reader has yielded so far
    out,          \* the rows written to output.csv so far
    company,      \* main's company
    url,          \* main's url
    normalized,   \* analyze_url's normalized
    candidates,   \* analyze_url's candidates
    soup,         \* analyze_url's soup: the main page's document, None before it is parsed
    fi,           \* the position in iframes of the frame whose fetch is pending
    iframe_src,   \* analyze_url's iframe_src
    fetchLog,     \* the fetch_html calls of the current row, with what each returned
    ret,          \* what analyze_url returned for the current row, None while it has not
    fin,          \* the argument of the function under test
    fout          \* its result, None before the call

vars == <<pc, inRows, out, company, url, normalized, candidates, soup, fi,
          iframe_src, fetchLog, ret, fin, fout>>

(***************************************************************************)
(* Pieces of analyze_url and main.                                         *)
(***************************************************************************)
\* list.extend with the operands swapped: the new candidates come first
ExtendInFront(cands, new) == new \o cands

\* list.extend
ExtendCandidates(cands, new) == cands \o new

\* a fetch_html that tries once more after a failure
LogFetchWithRetry(log, kind, u, resp) ==
    IF resp = None
    THEN Append(Append(log, [kind |-> kind, url |-> u, resp |-> resp]),
                [kind |-> kind, url |-> u, resp |-> resp])
    ELSE Append(log, [kind |-> kind, url |-> u, resp |-> resp])

\* one call of fetch_html: a single requests.get, whose outcome `resp` is
\* None (any exception) or Some(the document served)
LogFetch(log, kind, u, resp) == Append(log, [kind |-> kind, url |-> u, resp |-> resp])

\* a fetch-failed branch that gives up the direct matches
FetchFailedNoFallback(cands) == << <<>>, "", "" >>

\* the return of the fetch-failed branch
FetchFailedResult(cands) ==
    IF cands # <<>>
    THEN LET best == pick_best_job_board(DedupeFallback(cands))
         IN  IF best # None THEN <<Get(best)[2], Get(best)[1], "">> ELSE << <<>>, "", "" >>
    ELSE << <<>>, "", "" >>

\* a note that is also set when a fetched frame shows the pattern
UpdateNoteWithFrames(sp) ==
    IF \/ detect_email_with_pdfs(sp)
       \/ \E i \in 1..Len(fetchLog) :
             /\ fetchLog[i].kind = "frame"
             /\ fetchLog[i].resp # None
             /\ detect_email_with_pdfs(Get(fetchLog[i].resp))
    THEN NOTE
    ELSE ""

\* update
UpdateNote(sp) == IF detect_email_with_pdfs(sp) THEN NOTE ELSE ""

\* a return that assigns board_type and leaves job_board_url empty
FinalResultWithoutUrl(cands, sp) ==
    LET best == pick_best_job_board(Dedupe(cands))
    IN  IF best # None
        THEN << <<>>, Get(best)[1], IF detect_email_with_pdfs(sp) THEN NOTE ELSE "" >>
        ELSE << <<>>, "", IF detect_email_with_pdfs(sp) THEN NOTE ELSE "" >>

\* the return after the frame loop
FinalResult(cands, sp) ==
    LET unique_candidates == Dedupe(cands)
        best == pick_best_job_board(unique_candidates)
    IN  IF unique_candidates # <<>> /\ best # None
        THEN <<Get(best)[2], Get(best)[1], UpdateNote(sp)>>
        ELSE << <<>>, "", UpdateNote(sp) >>

\* a row whose applyUrl column gets the normalized URL
OutputRowNormalized(c, u, r) ==
    [companyName |-> c, applyUrl |-> normalize_url(u), job_board_url |-> r[1],
     board_type |-> r[2], update |-> r[3]]

\* the row main writes
OutputRow(c, u, r) ==
    [companyName |-> c, applyUrl |-> u, job_board_url |-> r[1], board_type |-> r[2],
     update |-> r[3]]

\* the first position >= k of an iframe whose stripped src is not empty, 0 if none
RECURSIVE NextFrame(_, _)
NextFrame(iframes, k) ==
    IF k > Len(iframes) THEN 0
    ELSE IF Strip(iframes[k].url) = <<>> THEN NextFrame(iframes, k + 1)
    ELSE k

\* analyze_url returns r and main writes the row
Emit(r, cands, log) ==
    /\ ret' = Some(r)
    /\ out' = Append(out, OutputRow(company, url, r))
    /\ candidates' = cands
    /\ fetchLog' = log
    /\ pc' = "read"
    /\ fi' = 0
    /\ iframe_src' = <<>>

\* the frame loop from position k on, up to the next fetch_html call, the
\* return, or the ValueError of urljoin, which nothing catches
Continue(cands, k, sp, log) ==
    LET iframes == FindIframes(sp)
        j == NextFrame(iframes, k)
        raw_src == Strip(iframes[j].url)
    IN  IF j = 0
        THEN Emit(FinalResult(cands, sp), cands, log)
        ELSE IF UrljoinRaises(normalized, raw_src)
        THEN /\ pc' = "crashed"
             /\ candidates' = cands
             /\ fetchLog' = log
             /\ fi' = j
             /\ UNCHANGED <<out, ret, iframe_src>>
        ELSE /\ pc' = "fetch_frame"
             /\ iframe_src' = urljoin(normalized, raw_src)
             /\ candidates' = ExtendCandidates(cands, find_job_boards_in_text(urljoin(normalized, raw_src)))
             /\ fetchLog' = log
             /\ fi' = j
             /\ UNCHANGED <<out, ret>>

(***************************************************************************)
(* The actions of main().                                                  *)
(***************************************************************************)
Init ==
    /\ pc = "read"
    /\ inRows = <<>>
    /\ out = <<>>
    /\ company = <<>>
    /\ url = <<>>
    /\ normalized = <<>>
    /\ candidates = <<>>
    /\ soup = None
    /\ fi = 0
    /\ iframe_src = <<>>
    /\ fetchLog = <<>>
    /\ ret = None
    /\ fin = <<>>
    /\ fout = None

\* a row without applyUrl: [SKIP]
SkipRow(row) ==
    /\ pc = "read"
    /\ Len(inRows) < MaxRows
    /\ Strip(row.applyUrl) = <<>>
    /\ inRows' = Append(inRows, row)
    /\ company' = Strip(row.companyName)
    /\ url' = <<>>
    /\ normalized' = <<>>
    /\ candidates' = <<>>
    /\ soup' = None
    /\ fi' = 0
    /\ iframe_src' = <<>>
    /\ fetchLog' = <<>>
    /\ ret' = None
    /\ UNCHANGED <<pc, out, fin, fout>>

\* a row with an applyUrl, up to analyze_url's call of fetch_html(normalized)
StartRow(row) ==
    /\ pc = "read"
    /\ Len(inRows) < MaxRows
    /\ Strip(row.applyUrl) # <<>>
    /\ inRows' = Append(inRows, row)
    /\ company' = Strip(row.companyName)
    /\ url' = Strip(row.applyUrl)
    /\ normalized' = normalize_url(url')
    /\ soup' = None
    /\ IF normalized' = <<>>
       THEN /\ ret' = Some(<< <<>>, "", "" >>)
            /\ out' = Append(out, OutputRow(company', url', << <<>>, "", "" >>))
            /\ candidates' = <<>>
            /\ pc' = "read"
       ELSE /\ candidates' = ExtendCandidates(<<>>, find_job_boards_in_text(normalized'))
            /\ pc' = "fetch_main"
            /\ ret' = None
            /\ out' = out
    /\ fi' = 0
    /\ iframe_src' = <<>>
    /\ fetchLog' = <<>>
    /\ UNCHANGED <<fin, fout>>

\* fetch_html(normalized) returns None
FetchMainFail ==
    /\ pc = "fetch_main"
    /\ Emit(FetchFailedResult(candidates), candidates,
            LogFetch(fetchLog, "main", normalized, None))
    /\ UNCHANGED <<inRows, company, url, normalized, soup, fin, fout>>

\* fetch_html(normalized) returns the markup of `doc`
FetchMainOk(doc) ==
    /\ pc = "fetch_main"
    /\ soup' = Some(doc)
    /\ Continue(ExtendCandidates(candidates, find_job_boards_in_html(HtmlText(doc))), 1, doc,
                LogFetch(fetchLog, "main", normalized, Some(doc)))
    /\ UNCHANGED <<inRows, company, url, normalized, fin, fout>>

\* fetch_html(iframe_src) returns None or the markup of a document
FetchFrame(resp) ==
    /\ pc = "fetch_frame"
    /\ LET cands == IF resp # None /\ HtmlText(Get(resp)) # <<>>
                    THEN ExtendCandidates(candidates, find_job_boards_in_html(HtmlText(Get(resp))))
                    ELSE candidates
       IN  Continue(cands, fi + 1, Get(soup), LogFetch(fetchLog, "frame", iframe_src, resp))
    /\ UNCHANGED <<inRows, company, url, normalized, soup, fin, fout>>

\* the reader is exhausted: "Done. Wrote results"
EndOfInput ==
    /\ pc = "read"
    /\ pc' = "done"
    /\ UNCHANGED <<inRows, out, company, url, normalized, candidates, soup, fi,
                   iframe_src, fetchLog, ret, fin, fout>>

Next ==
    \/ \E row \in InputRows : SkipRow(row)
    \/ \E row \in InputRows : StartRow(row)
    \/ FetchMainFail
    \/ \E doc \in MainDocs : FetchMainOk(doc)
    \/ \E resp \in {None} \cup {Some(d) : d \in FrameDocs} : FetchFrame(resp)
    \/ EndOfInput

Spec == Init /\ [][Next]_vars

(***************************************************************************)
(* pick_best_job_board on its own: the argument is drawn in Init, one      *)
(* action calls the function, another calls it on the same URLs under      *)
(* vendor v.                                                               *)
(***************************************************************************)
RECURSIVE SeqsUpTo(_, _)
SeqsUpTo(S, n) ==
    IF n = 0 THEN {<<>>}
    ELSE LET shorter == SeqsUpTo(S, n - 1)
         IN  shorter \cup {Append(q, x) : q \in shorter, x \in S}

FunInit(start) ==
    /\ pc = start
    /\ fin \in SeqsUpTo(CandPool, MaxCands)
    /\ fout = None
    /\ inRows = <<>>
    /\ out = <<>>
    /\ company = <<>>
    /\ url = <<>>
    /\ normalized = <<>>
    /\ candidates = <<>>
    /\ soup = None
    /\ fi = 0
    /\ iframe_src = <<>>
    /\ fetchLog = <<>>
    /\ ret = None

InitPick == FunInit("pick")

CallPick ==
    /\ pc = "pick"
    /\ fout' = pick_best_job_board(fin)
    /\ pc' = "picked"
    /\ UNCHANGED <<inRows, out, company, url, normalized, candidates, soup, fi,
                   iframe_src, fetchLog, ret, fin>>

CallPickOtherVendor(v) ==
    /\ pc = "picked"
    /\ candidates' = [i \in 1..Len(fin) |-> <<v, fin[i][2]>>]
    /\ ret' = pick_best_job_board(candidates')
    /\ pc' = "repicked"
    /\ UNCHANGED <<inRows, out, company, url, normalized, soup, fi, iframe_src,
                   fetchLog, fin, fout>>

NextPick == CallPick \/ \E v \in Vendors : CallPickOtherVendor(v)

SpecPick == InitPick /\ [][NextPick]_vars

(***************************************************************************)
(* The two deduplication loops on their own.                               *)
(***************************************************************************)
InitDedupe == FunInit("dedupe")

CallDedupe ==
    /\ pc = "dedupe"
    /\ fout' = Some(Dedupe(fin))
    /\ pc' = "deduped"
    /\ UNCHANGED <<inRows, out, company, url, normalized, candidates, soup, fi,
                   iframe_src, fetchLog, ret, fin>>

CallDedupeFallback ==
    /\ pc = "deduped"
    /\ ret' = Some(DedupeFallback(fin))
    /\ pc' = "both"
    /\ UNCHANGED <<inRows, out, company, url, normalized, candidates, soup, fi,
                   iframe_src, fetchLog, fin, fout>>

NextDedupe == CallDedupe \/ CallDedupeFallback

SpecDedupe == InitDedupe /\ [][NextDedupe]_vars

(***************************************************************************)
(* What the claims speak of.                                               *)
(***************************************************************************)
EmptyResult == << <<>>, "", "" >>

\* the rows read so far whose applyUrl is not empty after trimming
Emittable(rows) == SelectSeq(rows, LAMBDA r : Strip(r.applyUrl) # <<>>)

\* the rows whose processing is over: all but the one being analysed
Processed ==
    IF pc \in {"fetch_main", "fetch_frame"} THEN SubSeq(inRows, 1, Len(inRows) - 1) ELSE inRows

\* the current row has been analysed and written
Returned == ret # None /\ pc \in {"read", "done"}

MainFailed == fetchLog # <<>> /\ fetchLog[1].kind = "main" /\ fetchLog[1].resp = None
MainSucceeded == fetchLog # <<>> /\ fetchLog[1].kind = "main" /\ fetchLog[1].resp # None

FrameLog == SelectSeq(fetchLog, LAMBDA e : e.kind = "frame")
MainLog == SelectSeq(fetchLog, LAMBDA e : e.kind = "main")

\* the iframes of the main page that carry a non-empty src, in document order
SrcFrames(sp) == SelectSeq(FindIframes(sp), LAMBDA e : Strip(e.url) # <<>>)

\* what one fetched frame adds to the pool: its URL's candidates, then its content's
FramePart(e) ==
    find_job_boards_in_text(e.url)
    \o (IF e.resp # None THEN find_job_boards_in_text(HtmlText(Get(e.resp))) ELSE <<>>)

LastOut == out[Len(out)]

(***************************************************************************)
(* C1: main() writes exactly one output row for each input row whose       *)
(* applyUrl is not empty after trimming and none for the others, in input  *)
(* order, whatever the fetches return: in every state the rows written are *)
(* those of the processed input rows with a non-empty applyUrl.            *)
(***************************************************************************)
C1_OneRowPerInputRow ==
    LET want == Emittable(Processed)
    IN  /\ Len(out) = Len(want)
        /\ \A i \in 1..Len(want) :
              /\ out[i].companyName = Strip(want[i].companyName)
              /\ out[i].applyUrl = Strip(want[i].applyUrl)

\* the same, for the runs in which no iframe src makes urljoin raise
C1_UnlessCrashed == pc # "crashed" => C1_OneRowPerInputRow

(***************************************************************************)
(* C2: in every output row board_type is empty iff job_board_url is empty, *)
(* and a non-empty board_type is a key of JOB_BOARD_PATTERNS.              *)
(***************************************************************************)
C2_VendorIffUrl ==
    \A i \in 1..Len(out) :
        /\ (out[i].board_type = "") <=> (out[i].job_board_url = <<>>)
        /\ out[i].board_type # "" => out[i].board_type \in Vendors

\* rows of every kind have been written: one empty after a failed fetch, one
\* found after a failed fetch, and the current row found after a successful fetch
C2_Witness ==
    /\ Len(out) >= 2
    /\ Returned
    /\ \/ /\ out[1].board_type = ""
          /\ MainSucceeded
          /\ LastOut.board_type \in Vendors
       \/ /\ out[1].board_type \in Vendors
          /\ MainFailed
          /\ LastOut.board_type = ""

(***************************************************************************)
(* C3: when the fetch of the main page fails, the result is the candidate  *)
(* selected (dedupe, then pick_best_job_board) among those found in the    *)
(* normalized URL string, or empty when there are none; the update note is *)
(* empty and no frame is fetched.                                          *)
(***************************************************************************)
C3_FetchFailedFallback ==
    (Returned /\ MainFailed) =>
        LET direct == find_job_boards_in_text(normalized)
            best == pick_best_job_board(DedupeFallback(direct))
            r == Get(ret)
        IN  /\ r[3] = ""
            /\ Len(fetchLog) = 1
            /\ soup = None
            /\ IF direct = <<>> THEN r = EmptyResult
               ELSE r = <<Get(best)[2], Get(best)[1], "">>
            /\ LastOut.job_board_url = r[1]
            /\ LastOut.board_type = r[2]
            /\ LastOut.update = ""

\* a failed fetch whose URL holds a duplicated candidate and a preferred one
C3_Witness ==
    /\ Returned
    /\ MainFailed
    /\ Len(find_job_boards_in_text(normalized)) = 3
    /\ Get(ret) = << <<"https://", "greenhouse.io", "/jobs">>, "greenhouse", "" >>

(***************************************************************************)
(* C4: for a non-empty normalized URL the main page is fetched exactly     *)
(* once, also when the URL itself matches a pattern; after a successful    *)
(* fetch the pool holds the URL's candidates, then the main HTML's, then,  *)
(* frame by frame in document order, the frame URL's and the frame         *)
(* content's.                                                              *)
(***************************************************************************)
C4_FetchOnceAndPoolOrder ==
    /\ pc = "fetch_main" => fetchLog = <<>>
    /\ (normalized # <<>> /\ pc # "fetch_main") =>
          /\ Len(MainLog) = 1
          /\ fetchLog[1].kind = "main"
          /\ fetchLog[1].url = normalized
    /\ soup # None =>
          /\ MainSucceeded
          /\ \A i \in 1..Len(FrameLog) :
                FrameLog[i].url = urljoin(normalized, Strip(SrcFrames(Get(soup))[i].url))
          /\ candidates =
                find_job_boards_in_text(normalized)
                \o find_job_boards_in_text(HtmlText(Get(soup)))
                \o Flatten([i \in 1..Len(FrameLog) |-> FramePart(FrameLog[i])])
                \o (IF pc = "fetch_frame" THEN find_job_boards_in_text(iframe_src) ELSE <<>>)

\* the URL matches a pattern, the page was fetched all the same, and the
\* HTML, a frame URL and a frame's content each added candidates
C4_Witness ==
    /\ Returned
    /\ MainSucceeded
    /\ find_job_boards_in_text(normalized) # <<>>
    /\ find_job_boards_in_text(HtmlText(Get(soup))) # <<>>
    /\ Len(FrameLog) = 2
    /\ find_job_boards_in_text(FrameLog[1].url) # <<>>
    /\ FrameLog[2].resp # None
    /\ find_job_boards_in_text(HtmlText(Get(FrameLog[2].resp))) # <<>>

(***************************************************************************)
(* C5: pick_best_job_board returns none for the empty sequence, otherwise  *)
(* the first candidate whose URL holds "/jobs" or "/careers" in any case,  *)
(* and the first candidate when none does; the result is a member of the   *)
(* input and the position chosen is the same under any vendor.             *)
(***************************************************************************)
Preferred(c) ==
    \E i \in 1..Len(c[2]) : c[2][i] \in {"/jobs", "/JOBS", "/careers", "/Careers"}

\* the position pick_best_job_board is to choose in a non-empty sequence
BestPos(cands) ==
    IF \E k \in 1..Len(cands) : Preferred(cands[k])
    THEN CHOOSE k \in 1..Len(cands) :
            Preferred(cands[k]) /\ \A j \in 1..(k - 1) : ~Preferred(cands[j])
    ELSE 1

C5_PickBest ==
    /\ pc \in {"picked", "repicked"} =>
          IF fin = <<>> THEN fout = None
          ELSE fout = Some(fin[BestPos(fin)])
    /\ pc = "repicked" =>
          IF fin = <<>> THEN ret = None
          ELSE /\ ret = Some(candidates[BestPos(fin)])
               /\ Get(ret)[2] = Get(fout)[2]

\* a preferred candidate that is not the first is chosen over an earlier
\* one of the same vendor, and again under another vendor
C5_Witness ==
    /\ pc = "repicked"
    /\ Len(fin) = MaxCands
    /\ BestPos(fin) > 1
    /\ fin[1][1] = fin[BestPos(fin)][1]
    /\ fout = Some(fin[BestPos(fin)])
    /\ Get(ret)[1] # Get(fout)[1]

(***************************************************************************)
(* C6: deduplication yields a sequence without two equal (vendor, url)     *)
(* pairs, with exactly the pairs of the input, ordered by first            *)
(* occurrence; pairs that share only the vendor or only the URL are both   *)
(* kept.                                                                   *)
(***************************************************************************)
Range(q) == {q[i] : i \in 1..Len(q)}

FirstPos(q, x) == CHOOSE i \in 1..Len(q) : q[i] = x /\ \A j \in 1..(i - 1) : q[j] # x

IsDedupeOf(u, q) ==
    /\ \A i, j \in 1..Len(u) : i # j => u[i] # u[j]
    /\ Range(u) = Range(q)
    /\ \A i, j \in 1..Len(u) : i < j => FirstPos(q, u[i]) < FirstPos(q, u[j])

C6_Dedupe ==
    /\ pc \in {"deduped", "both"} => IsDedupeOf(Get(fout), fin)
    /\ pc = "both" => IsDedupeOf(Get(ret), fin)

\* a repeated pair is dropped while a pair of the same vendor and a pair of
\* the same URL are kept
C6_Witness ==
    /\ pc = "both"
    /\ Len(fin) = MaxCands
    /\ Len(Get(fout)) < Len(fin)
    /\ Get(ret) = Get(fout)
    /\ \E i, j \in 1..Len(Get(fout)) :
          /\ i # j
          /\ \/ Get(fout)[i][1] = Get(fout)[j][1]
             \/ Get(fout)[i][2] = Get(fout)[j][2]

(***************************************************************************)
(* C7: after a successful main-page fetch every iframe with a non-empty    *)
(* src has its resolved URL scanned and fetched; a failed frame fetch adds *)
(* nothing and stops neither the other frames nor the row's result.  Once  *)
(* the row is over, the frame fetches are those of all these iframes, in   *)
(* document order.                                                         *)
(***************************************************************************)
C7_EveryFrameFetched ==
    (soup # None /\ pc \in {"read", "done", "crashed"}) =>
        /\ Len(FrameLog) = Len(SrcFrames(Get(soup)))
        /\ \A i \in 1..Len(FrameLog) :
              FrameLog[i].url = urljoin(normalized, Strip(SrcFrames(Get(soup))[i].url))

\* the same, for the rows in which no iframe src makes urljoin raise
C7_UnlessCrashed == pc # "crashed" => C7_EveryFrameFetched

\* a failed frame fetch followed by a frame that is fetched and adds candidates
C7_FailedFrameThenFetched ==
    /\ Returned
    /\ Len(FrameLog) = 2
    /\ FrameLog[1].resp = None
    /\ FrameLog[2].resp # None
    /\ Get(ret)[2] = "workable"

(***************************************************************************)
(* C8 as claimed: the applyUrl column of an emitted row holds the          *)
(* normalized URL, the value analyze_url fetches.                          *)
(***************************************************************************)
C8_OutputHoldsNormalized ==
    Returned => LastOut.applyUrl = normalized

(***************************************************************************)
(* C8 as amended: the applyUrl column holds the input cell with leading    *)
(* and trailing white space removed and no scheme added; analyze_url       *)
(* fetches normalize_url of that value, which differs from it exactly when *)
(* the cell lacks an http:// or https:// scheme.                           *)
(***************************************************************************)
C8_OutputHoldsTrimmedInput ==
    /\ \A i \in 1..Len(out) :
          i <= Len(Emittable(inRows)) /\ out[i].applyUrl = Strip(Emittable(inRows)[i].applyUrl)
    /\ Returned =>
          /\ normalized = normalize_url(LastOut.applyUrl)
          /\ fetchLog[1].url = normalized
          /\ (LastOut.applyUrl = normalized) <=> HasScheme(LastOut.applyUrl)
          /\ ~HasScheme(LastOut.applyUrl) => normalized = <<"https://">> \o LastOut.applyUrl

\* a row written from a padded cell without scheme
C8_Witness ==
    /\ Returned
    /\ inRows[Len(inRows)].applyUrl = <<" ", "acme.com", "/careers", " ">>
    /\ LastOut.applyUrl = <<"acme.com", "/careers">>
    /\ fetchLog[1].url = <<"https://", "acme.com", "/careers">>

(***************************************************************************)
(* C9 as claimed: within one row no URL is fetched a second time.          *)
(***************************************************************************)
C9_NoUrlFetchedTwice ==
    \A i, j \in 1..Len(fetchLog) : i # j => fetchLog[i].url # fetchLog[j].url

\* the number of iframes with a non-empty src among the first k
SrcFramesBefore(iframes, k) ==
    Cardinality({i \in 1..Len(iframes) : i <= k /\ Strip(iframes[i].url) # <<>>})

(***************************************************************************)
(* C9 as amended: within one row there is no retry: the main page is       *)
(* fetched once, and each iframe with a non-empty src that the frame loop  *)
(* reaches is fetched once, in document order, whatever the outcome of the *)
(* earlier fetches; a URL is fetched again only when a further iframe      *)
(* resolves to it.                                                         *)
(***************************************************************************)
C9_OneFetchPerSite ==
    /\ soup = None => Len(fetchLog) <= 1
    /\ soup # None =>
          LET iframes == FindIframes(Get(soup))
              reached == CASE pc = "fetch_frame" -> SrcFramesBefore(iframes, fi - 1)
                           [] pc = "crashed" -> SrcFramesBefore(iframes, fi - 1)
                           [] OTHER -> SrcFramesBefore(iframes, Len(iframes))
          IN  /\ Len(fetchLog) = 1 + reached
              /\ fetchLog[1].kind = "main"
              /\ \A i \in 1..reached :
                    /\ fetchLog[1 + i].kind = "frame"
                    /\ fetchLog[1 + i].url =
                          urljoin(normalized, Strip(SrcFrames(Get(soup))[i].url))

\* two iframes resolve to the page's own URL: it is fetched three times,
\* the second attempt failing
C9_Witness ==
    /\ Returned
    /\ Len(fetchLog) = 3
    /\ fetchLog[2].url = fetchLog[1].url
    /\ fetchLog[3].url = fetchLog[1].url
    /\ fetchLog[2].resp = None
    /\ fetchLog[3].resp # None

(***************************************************************************)
(* C10: the update note is "email to apply with pdfs" or empty; it is the  *)
(* former exactly when the main-page fetch succeeded and                   *)
(* detect_email_with_pdfs holds of the main page, whatever the frames hold *)
(* and whether or not a candidate was found.                               *)
(***************************************************************************)
C10_UpdateNote ==
    /\ \A i \in 1..Len(out) : out[i].update \in {NOTE, ""}
    /\ Returned =>
          /\ LastOut.update = Get(ret)[3]
          /\ (LastOut.update = NOTE) <=>
                (MainSucceeded /\ soup # None /\ detect_email_with_pdfs(Get(soup)))

\* a row without note whose frame holds the pattern, after a row with the
\* note and no vendor
C10_Witness ==
    /\ Returned
    /\ Len(out) = 2
    /\ out[1].update = NOTE
    /\ out[1].board_type = ""
    /\ LastOut.update = ""
    /\ LastOut.board_type # ""
    /\ \E i \in 1..Len(FrameLog) :
          FrameLog[i].resp # None /\ detect_email_with_pdfs(Get(FrameLog[i].resp))

=============================================================================
